---- MODULE Spec2Model ----
(***************************************************************************)
(* Model of langchain_chainlit.py: the ChatbotService session (conversation *)
(* history, preloaded retriever), one process_message call at a time with   *)
(* its event-classification loop, and the ad-hoc index builder              *)
(* _create_temp_retriever_from_files with its temporary files.              *)
(*                                                                          *)
(* Embedding, chunking, vector search, the remote model and the chat UI     *)
(* are opaque: a retriever is the list of documents it indexes, the agent   *)
(* executor is the event stream it yields, and the UI is the list of        *)
(* messages shown.                                                          *)
(***************************************************************************)
EXTENDS Integers, Sequences, FiniteSets, TLC

VARIABLES
    rag_data,             \* the *.txt files of RAG_DATA_FOLDER at session start
    service,              \* cl.user_session "chatbot_service" is set
    base_retriever,       \* ChatbotService.base_retriever
    chat_history,         \* ChatbotService.chat_history
    pc,                   \* position of the process_message call
    user_message,         \* argument of process_message
    new_files,            \* argument of process_message
    tools,                \* local: the tool list handed to the executor
    msg,                  \* local: the placeholder cl.Message(content="")
    events,               \* events of astream_events consumed so far by this call
    streamed_response,    \* local
    final_answer,         \* local
    full_response,        \* local
    returned,             \* value returned by the last finished call
    exc,                  \* exception raised inside the try block of this call
    ui,                   \* user-visible messages emitted by this call, in order
    log,                  \* logging lines written by this call, in order
    fileIdx,              \* builder: position of the for loop over files
    documents,            \* builder: local documents
    temp_files_to_delete, \* builder: local temp_files_to_delete
    pending,              \* builder: exception travelling to the finally block
    disk,                 \* temporary files existing on disk
    histBefore,           \* chat_history when this call started
    outcomes,             \* outcome of each finished call, oldest first
    calls                 \* locals of process_message calls that overlap

vars == <<rag_data, calls, service, base_retriever, chat_history, pc, user_message, new_files,
          tools, msg, events, streamed_response, final_answer, full_response,
          returned, exc, ui, log, fileIdx, documents, temp_files_to_delete,
          pending, disk, histBefore, outcomes>>

(***************************************************************************)
(* Bounds.                                                                  *)
(***************************************************************************)
MaxTurns == 3          \* process_message calls per session
MaxSessionEvents == 2  \* events per stream in the multi-turn specification
MaxEvents == 3         \* events per stream in the single-call stream specification
MaxFiles == 2          \* uploaded files per batch in the index-builder specification
NumCalls == 2          \* process_message calls in flight together

(***************************************************************************)
(* Values.                                                                  *)
(***************************************************************************)
NoKey == "<absent>"    \* a dict key that is absent / a value that is None

RECURSIVE SeqsUpTo(_, _)
SeqsUpTo(S, n) ==
    IF n = 0 THEN {<<>>}
    ELSE LET shorter == SeqsUpTo(S, n - 1)
         IN  shorter \cup {Append(s, x) : s \in {t \in shorter : Len(t) = n - 1}, x \in S}

Range(s) == {s[i] : i \in 1..Len(s)}

\* An uploaded cl.File: name, whether it has an on-disk path, its in-memory
\* content (none, bytes that can be written, or content whose write raises)
\* and what its loader's load() does.
File(name, ext, path, content, load) ==
    [name |-> name, ext |-> ext, path |-> path, content |-> content, load |-> load]

FileA == File("a.txt", ".txt", TRUE,  "none",       "docs")
FileB == File("b.pdf", ".pdf", FALSE, "bytes",      "raise")
FileC == File("c.csv", ".csv", FALSE, "bytes",      "docs")
FileD == File("d.txt", ".txt", FALSE, "none",       "docs")
FileE == File("e.txt", ".txt", FALSE, "unwritable", "docs")
FileF == File("f.txt", ".txt", TRUE,  "none",       "empty")

Files == {FileA, FileB, FileC, FileD, FileE, FileF}
AllBatches == SeqsUpTo(Files, MaxFiles)
SessionBatches == {<<>>, <<FileC>>, <<FileB>>}
StreamBatches == {<<>>, <<FileC>>}

UserMessages == {"q1", "q2"}

\* The three payload shapes found under event["data"].
Action(isAgentAction, tool) == [isAgentAction |-> isAgentAction, tool |-> tool]
NoAction == Action(FALSE, NoKey)
Chunk(kind, content) == [kind |-> kind, content |-> content]
NoChunk == Chunk("missing", "")
Output(isAgentFinish, output) == [isAgentFinish |-> isAgentFinish, output |-> output]
NoOutput == Output(FALSE, NoKey)

\* One event dict of astream_events.
Event(event, event_type, name, dname, action, chunk, output) ==
    [event |-> event, event_type |-> event_type, name |-> name, dname |-> dname,
     action |-> action, chunk |-> chunk, output |-> output]

EvNoStructure   == Event(NoKey, NoKey, NoKey, NoKey, NoAction, NoChunk, NoOutput)
EvUnknownKind   == Event("on_chain_start", NoKey, NoKey, NoKey, NoAction, NoChunk, NoOutput)
EvAction        == Event("on_agent_action", NoKey, NoKey, NoKey,
                         Action(TRUE, "uploaded_file_retriever"), NoChunk, NoOutput)
EvActionOther   == Event(NoKey, "agent_action", NoKey, NoKey,
                         Action(FALSE, "preloaded_document_retriever"), NoChunk, NoOutput)
EvToolStart     == Event("on_tool_start", NoKey, "uploaded_file_retriever", NoKey,
                         NoAction, NoChunk, NoOutput)
EvToolEnd       == Event(NoKey, "tool_end", NoKey, NoKey, NoAction, NoChunk, NoOutput)
EvToolEndData   == Event("on_tool_end", NoKey, NoKey, "preloaded_document_retriever",
                         NoAction, NoChunk, NoOutput)
EvTokenA        == Event("on_chat_model_stream", NoKey, NoKey, NoKey, NoAction,
                         Chunk("message", "a"), NoOutput)
EvTokenB        == Event(NoKey, "llm_chunk", NoKey, NoKey, NoAction,
                         Chunk("raw", "b"), NoOutput)
EvTokenEmpty    == Event("on_chat_model_stream", NoKey, NoKey, NoKey, NoAction,
                         Chunk("message", ""), NoOutput)
EvTokenNoChunk  == Event("on_chat_model_stream", NoKey, NoKey, NoKey, NoAction,
                         NoChunk, NoOutput)
EvFinishX       == Event("on_agent_finish", NoKey, NoKey, NoKey, NoAction, NoChunk,
                         Output(TRUE, "x"))
EvFinishY       == Event(NoKey, "agent_finish", NoKey, NoKey, NoAction, NoChunk,
                         Output(TRUE, "y"))
EvFinishEmpty   == Event("on_agent_finish", NoKey, NoKey, NoKey, NoAction, NoChunk,
                         Output(TRUE, ""))
EvFinishOther   == Event(NoKey, "agent_finish", NoKey, NoKey, NoAction, NoChunk,
                         Output(FALSE, "y"))

AllEvents == {EvNoStructure, EvUnknownKind, EvAction, EvActionOther, EvToolStart,
              EvToolEnd, EvToolEndData, EvTokenA, EvTokenB, EvTokenEmpty,
              EvTokenNoChunk,
              EvFinishX, EvFinishY, EvFinishEmpty, EvFinishOther}
SessionEvents == {EvToolStart, EvTokenA, EvFinishX}
\* The events that change a call's locals, for the overlapping calls.
OverlapEvents == {EvTokenA, EvFinishX}

Ui(kind, text) == [kind |-> kind, text |-> text]
Log(level, what, arg) == [level |-> level, what |-> what, arg |-> arg]

(***************************************************************************)
(* Session start: create_chatbot_service and start_chat.  The preloaded     *)
(* folder is the list of what TextLoader.load() does on each *.txt file.    *)
(***************************************************************************)
RagFolders == {<<>>, <<"raise">>, <<"docs", "raise">>}

NoRetriever == [some |-> FALSE, docs |-> <<>>]
Retriever(docs) == [some |-> TRUE, docs |-> docs]

\* _create_rag_retriever: the exception it raises, or the retriever it returns.
CreateRagRetriever(folder) ==
    LET all_docs == SelectSeq(folder, LAMBDA o : o = "docs")
    IN  IF folder = <<>> THEN [raised |-> "FileNotFoundError", retriever |-> NoRetriever]
        ELSE IF all_docs = <<>> THEN [raised |-> "ValueError", retriever |-> NoRetriever]
        ELSE [raised |-> "none", retriever |-> Retriever(<<"rag_data">>)]

\* A factory that catches nothing.
CreateChatbotServiceNoCatch(folder) ==
    [raised |-> CreateRagRetriever(folder).raised,
     base_retriever |-> CreateRagRetriever(folder).retriever]

\* create_chatbot_service: only FileNotFoundError is caught.
CreateChatbotService(folder) ==
    LET r == CreateRagRetriever(folder)
    IN  [raised |-> IF r.raised = "FileNotFoundError" THEN "none" ELSE r.raised,
         base_retriever |-> r.retriever]

\* The locals of an overlapping process_message call that reach chat_history.
IdleCall == [pc |-> "idle", user_message |-> "", consumed |-> 0,
             streamed_response |-> "", final_answer |-> "", full_response |-> "",
             exc |-> "none"]

Init ==
    \E folder \in RagFolders :
        /\ rag_data = folder
        /\ calls = [c \in 1..NumCalls |-> IdleCall]
        /\ service = (CreateChatbotService(folder).raised = "none")
        /\ base_retriever = CreateChatbotService(folder).base_retriever
        /\ chat_history = <<>>
        /\ pc = "idle"
        /\ user_message = ""
        /\ new_files = <<>>
        /\ tools = <<>>
        /\ msg = "unsent"
        /\ events = <<>>
        /\ streamed_response = ""
        /\ final_answer = ""
        /\ full_response = ""
        /\ returned = ""
        /\ exc = "none"
        /\ ui = <<>>
        /\ log = <<>>
        /\ fileIdx = 1
        /\ documents = <<>>
        /\ temp_files_to_delete = <<>>
        /\ pending = "none"
        /\ disk = {}
        /\ histBefore = <<>>
        /\ outcomes = <<>>

(***************************************************************************)
(* The event classifier of process_message.                                 *)
(***************************************************************************)
\* Lines 104-112: the event type, from "event" first, then "event_type".
HasStructure(e) == e.event # NoKey \/ e.event_type # NoKey
Kind(e) == IF e.event # NoKey THEN e.event ELSE e.event_type

IsAgentAction(e) == HasStructure(e) /\ Kind(e) \in {"on_agent_action", "agent_action"}
IsToolStart(e)   == HasStructure(e) /\ Kind(e) \in {"on_tool_start", "tool_start"}
IsToolEnd(e)     == HasStructure(e) /\ Kind(e) \in {"on_tool_end", "tool_end"}
IsModelStream(e) == HasStructure(e) /\ Kind(e) \in {"on_chat_model_stream", "llm_chunk"}
IsAgentFinish(e) == HasStructure(e) /\ Kind(e) \in {"on_agent_finish", "agent_finish"}

\* A lookup that ignores the name at the top level of the event.
ToolNameDataOnly(e) == IF e.dname # NoKey THEN e.dname ELSE "unknown_tool"

\* event.get("name", data.get("name", "未知工具"))
ToolName(e) ==
    IF e.name # NoKey THEN e.name
    ELSE IF e.dname # NoKey THEN e.dname
    ELSE "unknown_tool"

\* str(chunk) of a chunk without a content attribute; the default of
\* data.get("chunk", {}) is the empty dict, whose str() is "{}".
Str(chunk) == IF chunk.kind = "missing" THEN "{}" ELSE chunk.content

\* chunk.content if hasattr(chunk, "content") else str(chunk)
ChunkContent(chunk) == IF chunk.kind = "message" THEN chunk.content ELSE Str(chunk)

\* An accumulator that does not look at the event type.
NextStreamedAnyKind(e, sr) ==
    IF ChunkContent(e.chunk) # "" THEN sr \o ChunkContent(e.chunk) ELSE sr

\* Lines 140-146.
NextStreamed(e, sr) ==
    IF IsModelStream(e) /\ ChunkContent(e.chunk) # ""
    THEN sr \o ChunkContent(e.chunk)
    ELSE sr

\* A finish branch without the isinstance check of line 150.
NextFinalAnyPayload(e, fa) ==
    IF IsAgentFinish(e) /\ e.output.output \notin {NoKey, ""}
    THEN e.output.output
    ELSE fa

\* A finish branch without the emptiness check of line 152.
NextFinalOverwrites(e, fa) ==
    IF IsAgentFinish(e) /\ e.output.isAgentFinish
    THEN IF e.output.output = NoKey THEN "" ELSE e.output.output
    ELSE fa

\* Lines 148-154.
NextFinal(e, fa) ==
    IF /\ IsAgentFinish(e)
       /\ e.output.isAgentFinish
       /\ e.output.output \notin {NoKey, ""}
    THEN e.output.output
    ELSE fa

\* A classifier that also shows each token to the user as it arrives.
StatusForWithTokens(e) ==
    IF IsAgentAction(e)
    THEN IF e.action.isAgentAction THEN <<Ui("action", e.action.tool)>> ELSE <<>>
    ELSE IF IsToolStart(e) THEN <<Ui("tool_start", ToolName(e))>>
    ELSE IF IsToolEnd(e) THEN <<Ui("tool_end", ToolName(e))>>
    ELSE IF IsModelStream(e) THEN <<Ui("token", ChunkContent(e.chunk))>>
    ELSE <<>>

\* Lines 114-138: the status messages one event sends.
StatusFor(e) ==
    IF IsAgentAction(e)
    THEN IF e.action.isAgentAction THEN <<Ui("action", e.action.tool)>> ELSE <<>>
    ELSE IF IsToolStart(e) THEN <<Ui("tool_start", ToolName(e))>>
    ELSE IF IsToolEnd(e) THEN <<Ui("tool_end", ToolName(e))>>
    ELSE <<>>

\* The logging lines one event writes.
LogFor(e) ==
    IF ~HasStructure(e) THEN <<Log("warning", "unknown_structure", "")>>
    ELSE IF IsAgentAction(e) /\ e.action.isAgentAction
    THEN <<Log("info", "decision", e.action.tool), Log("debug", "tool_input", e.action.tool)>>
    ELSE IF IsModelStream(e) /\ ChunkContent(e.chunk) # ""
    THEN <<Log("debug", "chunk", ChunkContent(e.chunk))>>
    ELSE IF NextFinal(e, "") # ""
    THEN <<Log("info", "final_answer", NextFinal(e, ""))>>
    ELSE <<>>

\* The streamed text preferred over the finished answer.
FullResponseStreamedFirst(fa, sr) == IF sr # "" THEN sr ELSE fa

\* Line 157.
FullResponse(fa, sr) == IF fa # "" THEN fa ELSE sr

\* A handler that catches ValueError only.
CaughtValueErrorOnly(e) == e = "ValueError"

\* Line 167: except Exception catches every exception class raised in the try block.
ExceptionClasses == {"ValueError", "WriteError", "StreamError", "RemoveError"}
Caught(e) == e \in ExceptionClasses

\* Where control goes when e is raised inside the try block.
RaiseTo(e) == IF Caught(e) THEN "except" ELSE "propagated"

\* A handler that keeps the answer chosen before the exception.
HandlerResponseKept(fr) == fr

\* Line 175.
HandlerResponse(fr) == ""

\* Only the user's entry appended.
UpdatedHistoryHumanOnly(h, um, fr) ==
    IF fr # "" THEN Append(h, <<"human", um>>) ELSE h

\* The two entries appended in the wrong order.
UpdatedHistoryAiFirst(h, um, fr) ==
    IF fr # "" THEN Append(Append(h, <<"ai", fr>>), <<"human", um>>) ELSE h

\* The two entries appended whether or not there is an answer.
UpdatedHistoryAlways(h, um, fr) ==
    Append(Append(h, <<"human", um>>), <<"ai", fr>>)

\* Lines 178-180.
UpdatedHistory(h, um, fr) ==
    IF fr # "" THEN Append(Append(h, <<"human", um>>), <<"ai", fr>>) ELSE h

(***************************************************************************)
(* _get_rag_tool and the tool list.                                         *)
(***************************************************************************)
Tool(name, description, retriever) ==
    [name |-> name, description |-> description, retriever |-> retriever]

\* Lines 69-76.
BaseTools(br) ==
    IF br.some
    THEN <<Tool("preloaded_document_retriever", "background", br)>>
    ELSE <<>>

\* The arguments of the preloaded tool pasted into the uploaded-file tool.
TempToolCopied(retriever) == Tool("preloaded_document_retriever", "background", retriever)

\* Lines 82-87.
TempTool(retriever) == Tool("uploaded_file_retriever", "priority", retriever)

(***************************************************************************)
(* _create_temp_retriever_from_files.                                       *)
(***************************************************************************)
\* Lines 248-250.
LoaderFor(file) ==
    IF file.ext = ".pdf" THEN "PyPDFLoader"
    ELSE IF file.ext = ".csv" THEN "CSVLoader"
    ELSE "TextLoader"

\* The name NamedTemporaryFile gives the file written for the idx-th upload of a call.
TempPath(call, idx) == [call |-> call, idx |-> idx]

\* Lines 236-242: whether a temporary file is created for the upload.
NeedsTemp(file) == ~file.path /\ file.content # "none"
\* Line 240: temp_file.write(file.content) raises.
WriteRaises(file) == NeedsTemp(file) /\ file.content = "unwritable"
\* Line 244.
HasActualPath(file) == file.path \/ (NeedsTemp(file) /\ ~WriteRaises(file))

\* Line 242: reached only when the write returned.
RegisterTemp(list, file, path) ==
    IF NeedsTemp(file) /\ ~WriteRaises(file) THEN Append(list, path) ELSE list

\* A builder without the empty check of line 257.
BuilderRaisedUnchecked(p, docs) == p

\* Line 257 and the exception already travelling: what the builder raises.
BuilderRaised(p, docs) ==
    IF p # "none" THEN p
    ELSE IF docs = <<>> THEN "ValueError"
    ELSE "none"

\* A finally block that deletes nothing.
CleanupNothing(d, list) == d

\* Lines 262-266: the finally block.
Cleanup(d, list) == d \ Range(list)

(***************************************************************************)
(* Actions.                                                                 *)
(***************************************************************************)
builderVars == <<fileIdx, documents, temp_files_to_delete, pending>>
\* What no step of the serialized call writes.
sessionVars == <<rag_data, calls, service, base_retriever>>

\* on_message, lines 343-346: no service in the session.
OnMessageNotReady ==
    /\ ~service
    /\ pc \in {"idle", "done"}
    /\ Len(outcomes) < MaxTurns
    /\ ui' = <<Ui("not_ready", "")>>
    /\ outcomes' = Append(outcomes, "not_ready")
    /\ pc' = "done"
    /\ UNCHANGED <<sessionVars, chat_history, user_message, new_files, tools, msg,
                   events, streamed_response, final_answer, full_response, returned,
                   exc, log, builderVars, disk, histBefore>>

\* on_message line 350 and process_message lines 56-66: a call starts.
ProcessMessage(Messages, Batches, maxCalls) ==
    /\ service
    /\ pc \in {"idle", "done"}
    /\ Len(outcomes) < maxCalls
    /\ \E um \in Messages, nf \in Batches :
        /\ user_message' = um
        /\ new_files' = nf
    /\ msg' = "unsent"
    /\ final_answer' = ""
    /\ streamed_response' = ""
    /\ full_response' = ""
    /\ events' = <<>>
    /\ tools' = <<>>
    /\ exc' = "none"
    /\ ui' = <<>>
    /\ log' = <<>>
    /\ fileIdx' = 1
    /\ documents' = <<>>
    /\ temp_files_to_delete' = <<>>
    /\ pending' = "none"
    /\ histBefore' = chat_history
    /\ pc' = "tools"
    /\ UNCHANGED <<sessionVars, chat_history, returned, disk, outcomes>>

\* Lines 68-80: the preloaded tool, then the notice that indexing starts.
AssembleTools ==
    /\ pc = "tools"
    /\ tools' = BaseTools(base_retriever)
    /\ IF new_files # <<>>
       THEN /\ ui' = Append(ui, Ui("indexing", ""))
            /\ log' = Append(log, Log("info", "new_files", ""))
            /\ pc' = "index"
       ELSE /\ UNCHANGED <<ui, log>>
            /\ pc' = "executor"
    /\ UNCHANGED <<sessionVars, chat_history, user_message, new_files, msg, events,
                   streamed_response, final_answer, full_response, returned, exc,
                   builderVars, disk, histBefore, outcomes>>

\* Lines 234-255: one iteration of the loop over the uploaded files.
IndexFile ==
    /\ pc = "index"
    /\ pending = "none"
    /\ fileIdx <= Len(new_files)
    /\ LET file == new_files[fileIdx]
           path == TempPath(Len(outcomes) + 1, fileIdx)
       IN  /\ disk' = IF NeedsTemp(file) THEN disk \cup {path} ELSE disk
           /\ temp_files_to_delete' = RegisterTemp(temp_files_to_delete, file, path)
           /\ pending' = IF WriteRaises(file) THEN "WriteError" ELSE "none"
           /\ IF WriteRaises(file)
              THEN UNCHANGED <<documents, ui, log>>
              ELSE IF ~HasActualPath(file)
              THEN /\ log' = Append(log, Log("warning", "skipped", file.name))
                   /\ UNCHANGED <<documents, ui>>
              ELSE IF file.load = "raise"
              THEN /\ log' = Append(log, Log("error", LoaderFor(file), file.name))
                   /\ ui' = Append(ui, Ui("file_error", file.name))
                   /\ UNCHANGED documents
              ELSE /\ documents' = IF file.load = "docs"
                                   THEN Append(documents, file.name)
                                   ELSE documents
                   /\ UNCHANGED <<ui, log>>
    /\ fileIdx' = fileIdx + 1
    /\ UNCHANGED <<sessionVars, chat_history, pc, user_message, new_files, tools, msg,
                   events, streamed_response, final_answer, full_response, returned,
                   exc, histBefore, outcomes>>

\* Lines 257-266 and 82-87: the end of the builder (the empty check, the index,
\* the finally block) and, when it returned, the uploaded-file tool.
FinishIndex ==
    /\ pc = "index"
    /\ pending # "none" \/ fileIdx > Len(new_files)
    /\ disk' = Cleanup(disk, temp_files_to_delete)
    /\ LET raised == BuilderRaised(pending, documents)
       IN  IF raised # "none"
           THEN /\ exc' = raised
                /\ pc' = RaiseTo(raised)
                /\ UNCHANGED tools
           ELSE /\ tools' = Append(tools, TempTool(Retriever(documents)))
                /\ pc' = "executor"
                /\ UNCHANGED exc
    /\ log' = log \o [i \in 1..Len(temp_files_to_delete) |->
                        IF temp_files_to_delete[i] \in disk
                        THEN Log("debug", "deleted", "")
                        ELSE Log("debug", "gone", "")]
    /\ UNCHANGED <<sessionVars, chat_history, user_message, new_files, msg, events,
                   streamed_response, final_answer, full_response, returned, ui,
                   builderVars, histBefore, outcomes>>

\* Lines 89-97: the executor is built and the empty placeholder is sent.
CreateExecutor ==
    /\ pc = "executor"
    /\ msg' = "sent"
    /\ streamed_response' = ""
    /\ final_answer' = ""
    /\ pc' = "stream"
    /\ UNCHANGED <<sessionVars, chat_history, user_message, new_files, tools, events,
                   full_response, returned, exc, ui, log, builderVars, disk,
                   histBefore, outcomes>>

\* Lines 99-154: one iteration of the loop over the event stream.
ConsumeEvent(Alphabet, maxEvents) ==
    /\ pc = "stream"
    /\ Len(events) < maxEvents
    /\ \E e \in Alphabet :
        /\ events' = Append(events, e)
        /\ streamed_response' = NextStreamed(e, streamed_response)
        /\ final_answer' = NextFinal(e, final_answer)
        /\ ui' = ui \o StatusFor(e)
        /\ log' = log \o LogFor(e)
    /\ UNCHANGED <<sessionVars, chat_history, pc, user_message, new_files, tools, msg,
                   full_response, returned, exc, builderVars, disk, histBefore,
                   outcomes>>

\* Line 99: the executor raises while the stream is consumed.
StreamRaises ==
    /\ pc = "stream"
    /\ exc' = "StreamError"
    /\ pc' = RaiseTo("StreamError")
    /\ UNCHANGED <<sessionVars, chat_history, user_message, new_files, tools, msg,
                   events, streamed_response, final_answer, full_response, returned,
                   ui, log, builderVars, disk, histBefore, outcomes>>

\* Lines 156-165, the stream has ended: the answer is chosen and sent, or the
\* placeholder is turned into the apology.
Respond ==
    /\ pc = "stream"
    /\ full_response' = FullResponse(final_answer, streamed_response)
    /\ IF FullResponse(final_answer, streamed_response) # ""
       THEN /\ ui' = Append(ui, Ui("final", FullResponse(final_answer, streamed_response)))
            /\ pc' = "remove"
            /\ UNCHANGED msg
       ELSE /\ ui' = Append(ui, Ui("apology", ""))
            /\ msg' = "updated"
            /\ pc' = "history"
    /\ UNCHANGED <<sessionVars, chat_history, user_message, new_files, tools, events,
                   streamed_response, final_answer, returned, exc, log, builderVars,
                   disk, histBefore, outcomes>>

\* Line 163: msg.remove() returns.
RemovePlaceholder ==
    /\ pc = "remove"
    /\ msg' = "removed"
    /\ pc' = "history"
    /\ UNCHANGED <<sessionVars, chat_history, user_message, new_files, tools, events,
                   streamed_response, final_answer, full_response, returned, exc, ui,
                   log, builderVars, disk, histBefore, outcomes>>

\* Line 163: msg.remove() raises (the case lines 171-174 guard against).
RemoveRaises ==
    /\ pc = "remove"
    /\ exc' = "RemoveError"
    /\ pc' = RaiseTo("RemoveError")
    /\ UNCHANGED <<sessionVars, chat_history, user_message, new_files, tools, msg,
                   events, streamed_response, final_answer, full_response, returned,
                   ui, log, builderVars, disk, histBefore, outcomes>>

\* Lines 167-175: the except block.
HandleException ==
    /\ pc = "except"
    /\ log' = Append(log, Log("error", "agent_error", exc))
    /\ ui' = Append(ui, Ui("error", exc))
    /\ \E removed \in BOOLEAN : msg' = IF removed THEN "removed" ELSE msg
    /\ full_response' = HandlerResponse(full_response)
    /\ pc' = "history"
    /\ UNCHANGED <<sessionVars, chat_history, user_message, new_files, tools, events,
                   streamed_response, final_answer, returned, exc, builderVars, disk,
                   histBefore, outcomes>>

\* Lines 177-183: the history update and the return.
UpdateHistory ==
    /\ pc = "history"
    /\ chat_history' = UpdatedHistory(chat_history, user_message, full_response)
    /\ returned' = full_response
    /\ outcomes' = Append(outcomes,
                          IF exc # "none" THEN "failed"
                          ELSE IF full_response # "" THEN "ok"
                          ELSE "empty")
    /\ pc' = "done"
    /\ UNCHANGED <<sessionVars, user_message, new_files, tools, msg, events,
                   streamed_response, final_answer, full_response, exc, ui, log,
                   builderVars, disk, histBefore>>

\* The steps of a call after it started.
CallSteps(Alphabet, maxEvents) ==
    \/ AssembleTools
    \/ IndexFile
    \/ FinishIndex
    \/ CreateExecutor
    \/ ConsumeEvent(Alphabet, maxEvents)
    \/ StreamRaises
    \/ Respond
    \/ RemovePlaceholder
    \/ RemoveRaises
    \/ HandleException
    \/ UpdateHistory

(***************************************************************************)
(* Overlapping calls.  process_message is a coroutine: a second call on the *)
(* same ChatbotService may run whenever the first is suspended at an await. *)
(* calls[c] holds the locals of call c; chat_history is the one list both   *)
(* share.  Each action is the code between two awaits of a call without     *)
(* uploaded files.                                                          *)
(***************************************************************************)
\* What an overlapping call does not touch.
serialVars == <<rag_data, service, base_retriever, pc, user_message, new_files, tools,
                msg, events, streamed_response, final_answer, full_response,
                returned, exc, ui, log, builderVars, disk, histBefore, outcomes>>

\* Lines 56-97: call c starts and is suspended at the send of its placeholder.
\* Calls are numbered in the order they start.
StartCall ==
    /\ service
    /\ \E c \in 1..NumCalls, um \in UserMessages :
        /\ calls[c].pc = "idle"
        /\ \A d \in 1..(c - 1) : calls[d].pc # "idle"
        /\ calls' = [calls EXCEPT ![c] = [IdleCall EXCEPT !.pc = "stream",
                                                          !.user_message = um]]
    /\ UNCHANGED <<chat_history, serialVars>>

\* Lines 99-154: call c takes one event from its own stream.
CallConsumeEvent ==
    /\ \E c \in 1..NumCalls, e \in OverlapEvents :
        /\ calls[c].pc = "stream"
        /\ calls[c].consumed < MaxSessionEvents
        /\ calls' = [calls EXCEPT
                        ![c].consumed = @ + 1,
                        ![c].streamed_response = NextStreamed(e, @),
                        ![c].final_answer = NextFinal(e, @)]
    /\ UNCHANGED <<chat_history, serialVars>>

\* Line 99: the stream of call c raises; the call is suspended at the send of
\* line 169.
CallStreamRaises ==
    /\ \E c \in 1..NumCalls :
        /\ calls[c].pc = "stream"
        /\ calls' = [calls EXCEPT ![c].exc = "StreamError",
                                  ![c].pc = RaiseTo("StreamError")]
    /\ UNCHANGED <<chat_history, serialVars>>

\* Lines 156-165: the stream of call c has ended; the call is suspended at the
\* send and the remove of lines 160-163, or at the update of line 165.
CallRespond ==
    /\ \E c \in 1..NumCalls :
        /\ calls[c].pc = "stream"
        /\ calls' = [calls EXCEPT
                        ![c].full_response =
                            FullResponse(calls[c].final_answer, calls[c].streamed_response),
                        ![c].pc =
                            IF FullResponse(calls[c].final_answer,
                                            calls[c].streamed_response) # ""
                            THEN "remove" ELSE "update"]
    /\ UNCHANGED <<chat_history, serialVars>>

\* Line 163: msg.remove() of call c raises; the call is suspended at the send
\* of line 169.
CallRemoveRaises ==
    /\ \E c \in 1..NumCalls :
        /\ calls[c].pc = "remove"
        /\ calls' = [calls EXCEPT ![c].exc = "RemoveError",
                                  ![c].pc = RaiseTo("RemoveError")]
    /\ UNCHANGED <<chat_history, serialVars>>

\* What is left of a call once it returned: its input, its exception and the
\* value it returned.
ReturnedCall(call, fr) ==
    [IdleCall EXCEPT !.pc = "done", !.user_message = call.user_message,
                     !.exc = call.exc, !.full_response = fr]

\* Lines 175-183: call c resumes after the last await of its except block,
\* clears its answer, runs the history update and returns.
CallHandleException ==
    /\ \E c \in 1..NumCalls :
        /\ calls[c].pc = "except"
        /\ chat_history' = UpdatedHistory(chat_history, calls[c].user_message,
                                          HandlerResponse(calls[c].full_response))
        /\ calls' = [calls EXCEPT
                        ![c] = ReturnedCall(@, HandlerResponse(@.full_response))]
    /\ UNCHANGED serialVars

\* Lines 177-183: call c resumes after msg.remove() or msg.update(), its last
\* await, appends to the shared history and returns; no await lies between
\* the two appends.
CallUpdateHistory ==
    /\ \E c \in 1..NumCalls :
        /\ calls[c].pc \in {"remove", "update"}
        /\ chat_history' = UpdatedHistory(chat_history, calls[c].user_message,
                                          calls[c].full_response)
        /\ calls' = [calls EXCEPT ![c] = ReturnedCall(@, @.full_response)]
    /\ UNCHANGED serialVars

(***************************************************************************)
(* Specifications.                                                          *)
(***************************************************************************)
\* A session: serialized calls, small inputs.
Next ==
    \/ OnMessageNotReady
    \/ ProcessMessage(UserMessages, SessionBatches, MaxTurns)
    \/ CallSteps(SessionEvents, MaxSessionEvents)

Spec == Init /\ [][Next]_vars

\* One call on a fresh session, every event shape in the stream.
NextStream ==
    \/ OnMessageNotReady
    \/ ProcessMessage({"q1"}, StreamBatches, 1)
    \/ CallSteps(AllEvents, MaxEvents)

SpecStream == Init /\ [][NextStream]_vars

\* One call on a fresh session, every batch of uploaded files.
NextFiles ==
    \/ OnMessageNotReady
    \/ ProcessMessage(UserMessages, AllBatches, 1)
    \/ CallSteps(SessionEvents, MaxSessionEvents)

SpecFiles == Init /\ [][NextFiles]_vars

\* One session, NumCalls calls interleaved at their awaits.
NextOverlap ==
    \/ OnMessageNotReady
    \/ StartCall
    \/ CallConsumeEvent
    \/ CallStreamRaises
    \/ CallRespond
    \/ CallRemoveRaises
    \/ CallHandleException
    \/ CallUpdateHistory

SpecOverlap == Init /\ [][NextOverlap]_vars

(***************************************************************************)
(* Vocabulary of the properties.                                            *)
(***************************************************************************)
\* The call has left the event loop by its normal end (line 157 was reached).
StreamEnded ==
    /\ service
    /\ \/ pc \in {"remove", "history", "done"} /\ exc = "none"
       \/ exc = "RemoveError"
\* The call has returned.
Returned == service /\ pc = "done"

LastEvent == events[Len(events)]

\* The answer text a finished event carries ("" when it carries none).
FinishedAnswer(e) ==
    IF IsAgentFinish(e) /\ e.output.isAgentFinish /\ e.output.output # NoKey
    THEN e.output.output
    ELSE ""

\* The token a model-token event carries ("" when it carries none).
TokenPayload(e) ==
    IF IsModelStream(e) /\ e.chunk.kind # "missing" THEN e.chunk.content ELSE ""

RECURSIVE ConcatTokens(_)
ConcatTokens(es) ==
    IF es = <<>> THEN ""
    ELSE ConcatTokens(SubSeq(es, 1, Len(es) - 1)) \o TokenPayload(es[Len(es)])

OfKind(k) == SelectSeq(ui, LAMBDA m : m.kind = k)
StatusKinds == {"indexing", "file_error", "action", "tool_start", "tool_end"}

IsPrefix(s, t) == Len(s) <= Len(t) /\ SubSeq(t, 1, Len(s)) = s

OkCalls == Len(SelectSeq(outcomes, LAMBDA o : o = "ok"))

(***************************************************************************)
(* Properties.                                                              *)
(***************************************************************************)
\* C1: when the stream ends with a finished event whose answer is non-empty,
\* the answer chosen at line 157 is that payload whatever tokens came before;
\* it is the final message shown, and when the call returns without an
\* exception it is the value returned and the ai entry appended to the history.
C1_FinishedAnswerWins ==
    (StreamEnded /\ events # <<>> /\ FinishedAnswer(LastEvent) # "") =>
        /\ exc = "none" => full_response = FinishedAnswer(LastEvent)
        /\ OfKind("final") = <<Ui("final", FinishedAnswer(LastEvent))>>
        /\ (pc = "done" /\ exc = "none") =>
              /\ returned = FinishedAnswer(LastEvent)
              /\ chat_history = histBefore \o
                    <<<<"human", user_message>>, <<"ai", FinishedAnswer(LastEvent)>>>>

C1_Witness ==
    /\ Returned /\ exc = "none"
    /\ Len(events) >= 2
    /\ FinishedAnswer(LastEvent) # ""
    /\ streamed_response # ""
    /\ returned = FinishedAnswer(LastEvent)

\* C2: when the stream held only model-token events, the answer chosen at
\* line 157 is the concatenation of the tokens they carry, in arrival order.
C2_TokensConcatenated ==
    (StreamEnded /\ exc = "none" /\ \A i \in 1..Len(events) : IsModelStream(events[i])) =>
        full_response = ConcatTokens(events)

\* C3: when no finished event carried a non-empty answer and no model-token
\* event carried a non-empty token, the call leaves the history as it was and
\* shows the apology.
C3_NoContentNoUpdate ==
    (/\ Returned /\ exc = "none"
     /\ \A i \in 1..Len(events) :
            FinishedAnswer(events[i]) = "" /\ TokenPayload(events[i]) = "") =>
        /\ chat_history = histBefore
        /\ OfKind("apology") # <<>>
        /\ OfKind("final") = <<>>

\* C4: the history changes only when a non-empty answer was produced; a call
\* in which an exception was raised, at any point, returns with the history it
\* started with.
C4_FailedTurnKeepsHistory ==
    /\ pc # "done" => chat_history = histBefore
    /\ (pc = "done" /\ exc # "none") => chat_history = histBefore
    /\ (pc = "done" /\ chat_history # histBefore) => (full_response # "" /\ exc = "none")

C4_Witness ==
    /\ Returned /\ exc # "none"
    /\ final_answer # ""
    /\ histBefore # <<>>
    /\ chat_history = histBefore

\* C5: a returned call either returns a non-empty answer and has appended
\* (human, user_message), (ai, that answer) to the history, or returns the
\* empty result and has appended nothing; a call that raised returns empty.
C5_ReturnMatchesHistory ==
    Returned =>
        /\ returned # "" <=> Len(chat_history) > Len(histBefore)
        /\ returned # "" =>
              chat_history = histBefore \o
                    <<<<"human", user_message>>, <<"ai", returned>>>>
        /\ returned = "" => chat_history = histBefore
        /\ exc # "none" => returned = ""

C5_Witness ==
    /\ Returned /\ returned # ""
    /\ Len(histBefore) = 2
    /\ histBefore[1][2] # user_message
    /\ chat_history[4] = <<"ai", returned>>

\* C6: after N successful calls, interleaved with any failed ones, the history
\* has 2N entries alternating human, ai from human; and it only grows by
\* appending.
C6_HistoryShape ==
    /\ [](/\ Len(chat_history) = 2 * OkCalls
          /\ \A i \in 1..Len(chat_history) :
                chat_history[i][1] = IF i % 2 = 1 THEN "human" ELSE "ai")
    /\ [][IsPrefix(chat_history, chat_history')]_vars

C6_Witness ==
    /\ outcomes = <<"ok", "failed", "ok">>
    /\ Len(chat_history) = 4

\* C7: an exception raised in the try block never leaves process_message: the
\* call shows one error message, returns, and the session accepts the next call.
C7_ExceptionsContained ==
    /\ pc # "propagated"
    /\ (pc \in {"history", "done"} /\ exc # "none") => OfKind("error") = <<Ui("error", exc)>>
    /\ (Returned /\ exc # "none" /\ Len(outcomes) < MaxTurns) =>
          ENABLED ProcessMessage(UserMessages, SessionBatches, MaxTurns)

C7_Witness ==
    /\ Returned
    /\ \E i \in 1..(Len(outcomes) - 1) : outcomes[i] = "failed" /\ outcomes[i + 1] = "ok"
    /\ returned # ""

\* C8: a call shows status messages and then exactly one final-answer message,
\* or exactly one error (or apology) message: never a final answer and an
\* error, never two of either, and no status after the final answer.
C8_OneClosingMessage ==
    LET closing == SelectSeq(ui, LAMBDA m : m.kind \in {"final", "error", "apology"})
    IN  /\ Len(closing) <= 1
        /\ Returned => Len(closing) = 1
        /\ closing # <<>> => ui[Len(ui)] = closing[1]

\* C9: outside a run of the index builder no temporary file is on disk: every
\* file the builder created is removed when it returns or raises.
C9_NoTempFileLeft ==
    pc # "index" => disk = {}

\* C10: in a batch where some file loads, some file's loader raises and every
\* temporary file could be written, the builder returns: its index holds the
\* documents of the files that loaded, in order, each loader failure is
\* reported, and no temporary file is left.
BatchLoadsAndRaises(nf) ==
    /\ \E i \in 1..Len(nf) : HasActualPath(nf[i]) /\ nf[i].load = "docs"
    /\ \E i \in 1..Len(nf) : HasActualPath(nf[i]) /\ nf[i].load = "raise"
    /\ \A i \in 1..Len(nf) : ~WriteRaises(nf[i])

Names(fs) == [i \in 1..Len(fs) |-> fs[i].name]

C10_PartialFailureCompletes ==
    (BatchLoadsAndRaises(new_files) /\ pc \notin {"idle", "tools", "index"}) =>
        /\ exc \notin {"ValueError", "WriteError"}
        /\ tools # <<>>
        /\ tools[Len(tools)] = TempTool(Retriever(Names(
               SelectSeq(new_files, LAMBDA f : HasActualPath(f) /\ f.load = "docs"))))
        /\ [i \in 1..Len(OfKind("file_error")) |-> OfKind("file_error")[i].text] =
               Names(SelectSeq(new_files, LAMBDA f : HasActualPath(f) /\ f.load = "raise"))
        /\ disk = {}

C10_Witness ==
    /\ pc = "executor"
    /\ new_files = <<FileB, FileC>>
    /\ disk = {}
    /\ Len(temp_files_to_delete) = 2

\* C11: when no file of a non-empty batch yields a document (each one is
\* skipped, loads to nothing or its loader raises) the builder raises the
\* empty-content error (a ValueError, line 257), no uploaded-file tool exists
\* and no temporary file is left.
BatchYieldsNothing(nf) ==
    /\ nf # <<>>
    /\ \A i \in 1..Len(nf) :
          /\ ~WriteRaises(nf[i])
          /\ ~HasActualPath(nf[i]) \/ nf[i].load \in {"raise", "empty"}

C11_EmptyBatchFails ==
    (BatchYieldsNothing(new_files) /\ pc \notin {"idle", "tools", "index"}) =>
        /\ exc = "ValueError"
        /\ \A i \in 1..Len(tools) : tools[i].name # "uploaded_file_retriever"
        /\ disk = {}

C11_Witness ==
    /\ pc = "except"
    /\ new_files = <<FileB, FileF>>
    /\ temp_files_to_delete # <<>>
    /\ exc = "ValueError"
    /\ disk = {}

\* The event types the classifier has a branch for (lines 114-148).
RecognizedKinds ==
    {"on_agent_action", "agent_action", "on_tool_start", "tool_start",
     "on_tool_end", "tool_end", "on_chat_model_stream", "llm_chunk",
     "on_agent_finish", "agent_finish"}

UnknownEvent(e) == ~HasStructure(e) \/ Kind(e) \notin RecognizedKinds

\* This step is one iteration of the event loop; Consumed is its event.
ConsumesEvent == Len(events') = Len(events) + 1
Consumed == events'[Len(events')]

Warnings(l) == SelectSeq(l, LAMBDA x : x.level = "warning")

\* C12 as stated: an event of unknown kind is logged as a warning, changes
\* neither accumulator, sends nothing and leaves the loop running.
C12_UnknownKindWarned ==
    [][(ConsumesEvent /\ UnknownEvent(Consumed)) =>
          /\ Len(log') = Len(log) + 1
          /\ log'[Len(log')].level = "warning"
          /\ streamed_response' = streamed_response
          /\ final_answer' = final_answer
          /\ ui' = ui
          /\ pc' = "stream"]_vars

\* C12 as amended: an event of unknown kind changes neither accumulator, sends
\* nothing and leaves the loop running; it is logged as a warning when it has
\* neither an "event" nor an "event_type" key, and not logged at all when it
\* has a key whose value is no recognized tag.
C12_UnknownKindIgnored ==
    [][(ConsumesEvent /\ UnknownEvent(Consumed)) =>
          /\ log' = IF HasStructure(Consumed)
                    THEN log
                    ELSE Append(log, Log("warning", "unknown_structure", ""))
          /\ streamed_response' = streamed_response
          /\ final_answer' = final_answer
          /\ ui' = ui
          /\ pc' = "stream"]_vars

C12_Witness ==
    /\ pc = "stream"
    /\ events = <<EvNoStructure, EvUnknownKind, EvTokenA>>
    /\ streamed_response = "a"
    /\ Len(Warnings(log)) = 1

\* The preloaded folder has files and none of them loads.
FolderYieldsNothing(folder) ==
    folder # <<>> /\ \A i \in 1..Len(folder) : folder[i] # "docs"

\* The session is untouched by an uploaded batch that yielded nothing.
UploadFailureIsLocal ==
    (Returned /\ BatchYieldsNothing(new_files)) =>
        /\ service
        /\ base_retriever = CreateChatbotService(rag_data).base_retriever
        /\ chat_history = histBefore

\* C13: an empty-content error is fatal to its own retrieval path only: when
\* the preloaded files yield no document the session still exists and serves
\* turns without the preloaded tool, and when an uploaded batch yields no
\* document the service, its preloaded retriever and its history are untouched.
C13_EmptyContentIsLocal ==
    /\ FolderYieldsNothing(rag_data) =>
          /\ \A i \in 1..Len(outcomes) : outcomes[i] # "not_ready"
          /\ \A i \in 1..Len(tools) : tools[i].name # "preloaded_document_retriever"
    /\ UploadFailureIsLocal

\* C14: when the preloaded folder has no matching file the session is still
\* created, with no preloaded retriever and an empty history, every message is
\* served by process_message, and no call's tool list holds the preloaded tool.
C14_MissingFolderNonFatal ==
    rag_data = <<>> =>
        /\ service
        /\ ~base_retriever.some
        /\ pc = "idle" => chat_history = <<>>
        /\ \A i \in 1..Len(outcomes) : outcomes[i] # "not_ready"
        /\ \A i \in 1..Len(tools) : tools[i].name # "preloaded_document_retriever"

C14_Witness ==
    /\ rag_data = <<>>
    /\ Returned
    /\ Len(outcomes) = 2
    /\ returned # ""
    /\ tools = <<>>

\* The tool list of this call was handed to the executor (line 89 was passed).
ToolsHandedOver ==
    /\ service
    /\ pc \in {"stream", "remove", "except", "history", "done"}
    /\ exc \notin {"ValueError", "WriteError"}

HasTool(name) == \E i \in 1..Len(tools) : tools[i].name = name

\* C15: the tool list handed to the executor holds the preloaded tool exactly
\* when the session has a preloaded retriever and the uploaded-file tool
\* exactly when files came with this call; the uploaded-file tool indexes
\* documents of this call's files only and carries the priority wording; no
\* two tools share a name.
C15_ToolSet ==
    ToolsHandedOver =>
        /\ HasTool("preloaded_document_retriever") <=> base_retriever.some
        /\ HasTool("uploaded_file_retriever") <=> new_files # <<>>
        /\ \A i, j \in 1..Len(tools) : tools[i].name = tools[j].name => i = j
        /\ \A i \in 1..Len(tools) :
              /\ tools[i].name = "uploaded_file_retriever" =>
                    /\ tools[i].description = "priority"
                    /\ tools[i].retriever.docs # <<>>
                    /\ Range(tools[i].retriever.docs) \subseteq Range(Names(new_files))
              /\ tools[i].name = "preloaded_document_retriever" =>
                    /\ tools[i].description # "priority"
                    /\ tools[i].retriever = base_retriever

C15_Witness ==
    /\ pc = "stream"
    /\ Len(outcomes) = 1
    /\ Len(tools) = 2
    /\ tools[1].name = "preloaded_document_retriever"
    /\ tools[2].name = "uploaded_file_retriever"

\* The answer of the last event of es that is a finished event with a
\* non-empty answer ("" when there is none).
RECURSIVE LastAnswer(_)
LastAnswer(es) ==
    IF es = <<>> THEN ""
    ELSE IF FinishedAnswer(es[Len(es)]) # "" THEN FinishedAnswer(es[Len(es)])
    ELSE LastAnswer(SubSeq(es, 1, Len(es) - 1))

\* C16: at the end of the stream the answer is a finished answer when some
\* finished event, anywhere in the stream, carried a non-empty one, and the
\* accumulated token text otherwise, also when finished events with an empty
\* or missing answer were seen.
C16_TieBreak ==
    (StreamEnded /\ exc = "none") =>
        full_response = IF \E i \in 1..Len(events) : FinishedAnswer(events[i]) # ""
                        THEN LastAnswer(events)
                        ELSE streamed_response

C16_Witness ==
    /\ Returned /\ exc = "none"
    /\ events = <<EvTokenA, EvFinishEmpty, EvFinishOther>>
    /\ full_response = "a"
    /\ returned = "a"

\* C20: the recorded answer is always the payload of the last finished event
\* so far whose answer is non-empty; a later finished event with an empty or
\* missing answer, or whose payload is no finish record, leaves it as it is.
C20_LastNonEmptyFinishWins ==
    final_answer = LastAnswer(events)

C20_Witness ==
    /\ pc = "stream"
    /\ events = <<EvFinishX, EvFinishY, EvFinishEmpty>>
    /\ final_answer = "y"

\* C17: a model-token event only extends the token accumulator: it sends
\* nothing to the user and leaves the recorded final answer and the history as
\* they are; the user sees token text in at most one message, the final
\* answer, which is sent after the loop.
C17_TokensOnlyAccumulate ==
    /\ [][(ConsumesEvent /\ IsModelStream(Consumed)) =>
             /\ IsPrefix(streamed_response, streamed_response')
             /\ ui' = ui
             /\ final_answer' = final_answer
             /\ chat_history' = chat_history
             /\ OfKind("final") = <<>>]_vars
    /\ [](Len(OfKind("final")) <= 1)

C17_Witness ==
    /\ Returned /\ exc = "none"
    /\ events = <<EvTokenA, EvTokenB>>
    /\ ui = <<Ui("final", "ab")>>

\* The messages about the agent's actions and tools, in the order sent.
ToolStatuses ==
    SelectSeq(ui, LAMBDA m : m.kind \in {"action", "tool_start", "tool_end"})

NoStatusAfterFinal ==
    \A i, j \in 1..Len(ui) :
        (i < j /\ ui[i].kind = "final") => ui[j].kind \notin StatusKinds

AnnouncesTool(e) == IsAgentAction(e) \/ IsToolStart(e) \/ IsToolEnd(e)

\* C18 as stated: every action-started, tool-started and tool-ended event
\* sends exactly one status message naming the tool, and no status message
\* follows the final answer.
C18_EveryToolEventAnnounced ==
    /\ [][(ConsumesEvent /\ AnnouncesTool(Consumed)) =>
             /\ Len(ui') = Len(ui) + 1
             /\ SubSeq(ui', 1, Len(ui)) = ui
             /\ ui'[Len(ui')].kind \in {"action", "tool_start", "tool_end"}]_vars
    /\ []NoStatusAfterFinal

\* The one message an event is expected to send, spelled out from lines
\* 114-138: nothing for an action-started event whose payload is no
\* AgentAction; the event's name, else the name in its data, else the
\* placeholder for the two tool events.
ExpectedStatus(e) ==
    IF IsAgentAction(e)
    THEN IF e.action.isAgentAction THEN <<Ui("action", e.action.tool)>> ELSE <<>>
    ELSE IF IsToolStart(e) \/ IsToolEnd(e)
    THEN <<Ui(IF IsToolStart(e) THEN "tool_start" ELSE "tool_end",
              IF e.name # NoKey THEN e.name
              ELSE IF e.dname # NoKey THEN e.dname ELSE "unknown_tool")>>
    ELSE <<>>

RECURSIVE ExpectedStatuses(_)
ExpectedStatuses(es) ==
    IF es = <<>> THEN <<>>
    ELSE ExpectedStatuses(SubSeq(es, 1, Len(es) - 1)) \o ExpectedStatus(es[Len(es)])

\* C18 as amended: every tool-started and tool-ended event, and every
\* action-started event whose payload is an agent action, sends exactly one
\* status message naming the tool (the event's name, else the name in its
\* data, else a placeholder); an action-started event with another payload
\* sends none; the messages appear in the arrival order of their events and
\* none follows the final answer.
C18_ToolEventsAnnouncedInOrder ==
    /\ ToolStatuses = ExpectedStatuses(events)
    /\ NoStatusAfterFinal

C18_Witness ==
    /\ Returned /\ exc = "none"
    /\ events = <<EvAction, EvToolStart, EvToolEndData>>
    /\ ui = <<Ui("action", "uploaded_file_retriever"),
              Ui("tool_start", "uploaded_file_retriever"),
              Ui("tool_end", "preloaded_document_retriever"),
              Ui("apology", "")>>

\* The calls that have returned with an answer.
AnsweredCalls == {c \in 1..NumCalls : calls[c].pc = "done" /\ calls[c].full_response # ""}

\* C19: with calls overlapping at every await, the shared history always has
\* even length and alternates human, ai; every human entry is immediately
\* followed by the ai answer of the same call, and the history holds one such
\* pair per call that returned with an answer.
C19_OverlapKeepsHistoryShape ==
    /\ Len(chat_history) = 2 * Cardinality(AnsweredCalls)
    /\ \A i \in 1..Len(chat_history) :
          chat_history[i][1] = IF i % 2 = 1 THEN "human" ELSE "ai"
    /\ \A i \in 1..Len(chat_history) :
          i % 2 = 1 =>
              \E c \in AnsweredCalls :
                  /\ chat_history[i] = <<"human", calls[c].user_message>>
                  /\ chat_history[i + 1] = <<"ai", calls[c].full_response>>

\* The call that started second returned first, while the first was still in
\* its stream, and both answers are in the history.
C19_Witness ==
    /\ calls[1].pc = "done" /\ calls[1].user_message = "q1"
    /\ calls[2].pc = "done" /\ calls[2].user_message = "q2"
    /\ chat_history = <<<<"human", "q2">>, <<"ai", "x">>,
                        <<"human", "q1">>, <<"ai", "a">>>>

====
